---- MODULE Spec2Model ----
(***************************************************************************)
(* Kuyari-Bot: the conversation-node cache (msg_nodes) with its per-node   *)
(* asyncio locks, the reply-chain walk, the streaming-response assembler   *)
(* and the response tracker of on_message (src/kuyaribot.py and the cog    *)
(* variant src/cogs/chat.py).                                              *)
(*                                                                         *)
(* Seven specifications share the module:                                  *)
(*   Spec       - two on_message handlers interleaved by the asyncio event *)
(*                loop over the shared cache, every fetch may raise.       *)
(*   SpecThree  - three handlers on a healthy network.                     *)
(*   SpecFour   - four handlers, one response, two replies to it.          *)
(*   SpecWalk   - one chain walk in full detail (turns, warnings), run     *)
(*                twice from the same leaf.                                *)
(*   SpecStream - one response stream in full detail (segments, updates).  *)
(*   SpecShared - SpecStream next to another handler that starts segments. *)
(*   SpecLive   - SpecFour under a fair event loop.                         *)
(*                                                                         *)
(* asyncio is cooperative: code between two awaits is atomic.  `running`   *)
(* names the handler that is inside such a stretch; 0 means every handler  *)
(* is suspended at an await and the event loop may resume any of them.     *)
(***************************************************************************)
EXTENDS Integers, Sequences, FiniteSets, TLC

\* ---------------------------------------------------------------- bounds
NumHandlers == 4        \* on_message handlers in flight (SpecFour)
Trio == 3               \* on_message handlers in flight (SpecThree)
ThreadRoot == 2         \* the message that later messages reply to (SpecFour)
Pair == 2               \* on_message handlers in flight (Spec)
MaxResp == 1            \* response messages (segments sent) per handler
MaxGen == 3             \* MsgNode objects alive at once for one key

\* ------------------------------------------------------ program constants
MAX_MESSAGE_NODES == 2  \* cache capacity (500 in the source, scaled down)
DefaultMaxMessages == 25  \* config.get("max_messages", 25)

H == 1..NumHandlers
MaxKey == NumHandlers * (1 + MaxResp)
Keys == 1..MaxKey
\* MsgNode objects: object o may only ever be stored under key KeyOf(o).
Objs == 1..(MaxKey * MaxGen)
KeyOf(o) == ((o - 1) \div MaxGen) + 1

\* A fresh MsgNode(): text None, role "assistant", parent_msg None.
MsgNode(parent) ==
  [text |-> "null", role |-> "assistant", parent_msg |-> parent,
   fetch_parent_failed |-> FALSE]

VARIABLES
  \* the cache
  msg_nodes,      \* key -> MsgNode object held under that key (0: absent)
  node,           \* object -> its fields
  lock,           \* object -> handler that acquired its lock (0: unlocked)
  waiters,        \* object -> FIFO of handlers waiting in lock.acquire()
  \* the chat surface
  nextId,         \* next message identifier (snowflakes grow)
  author,         \* key -> "user" | "bot" | "none"
  reference,      \* key -> key of the message it continues (0: none)
  \* the handlers
  pc, new_msg, curr_msg, curr_node, messages, response_msgs, response_nodes,
  sent, idx, victims, how, running,
  max_messages,   \* config["max_messages"]
  env,            \* the scenario: how many handlers start, whose downloads
                  \* and fetches may raise, which messages a user continues,
                  \* whose backend delivers content, how many handlers the
                  \* users keep busy at once
  \* history
  inserted,       \* keys ever inserted into msg_nodes
  overlap,        \* two handlers have been in progress at the same time
  \* one chain walk in detail (SpecWalk)
  variant,        \* "kuyaribot" (src/kuyaribot.py) | "chat" (src/cogs/chat.py)
  chan,           \* the chat surface as far as read: key -> message
  chain_nodes,    \* the walk's msg_nodes: key -> MsgNode fields
  wpc,            \* "off" | "begin" | "loop" | "done"
  run,            \* 1: the walk that populates; 2: the walk run again
  leaf,           \* new_msg of the walk
  cur,            \* curr_msg (0: None)
  turns,          \* messages
  user_warnings,
  iters,          \* loop iterations of the current run (saturates)
  visited,        \* keys visited by the current run, in order
  populations,    \* runs of the population block in the current run
  first,          \* what run 1 returned
  \* one response stream in detail (SpecStream)
  use_plain_responses, spc, curr_content, finish_reason, response_contents,
  reasoning_contents, reasoning_appended, shown, chunks, delivered, ending,
  now,            \* datetime.now().timestamp(), in ticks
  last_task_time, \* the module's global of that name, in ticks
  edit_task,      \* "none" | "pending" | "done" | "failed"
  updates,        \* history: the updates the handler has emitted, in order
  reasoning_delivered, \* history: choice.delta.reasoning of every delta
  other_at,       \* history: when another response last started a segment
  other_sending   \* another handler's reply() is in flight

cacheVars == <<msg_nodes, node, lock, waiters>>
surfaceVars == <<nextId, author, reference>>
handlerVars == <<pc, new_msg, curr_msg, curr_node, messages, response_msgs,
                 response_nodes, sent, idx, victims, how, running,
                 max_messages, env>>
histVars == <<inserted, overlap>>
cacheAll == <<cacheVars, surfaceVars, handlerVars, histVars>>
walkVars == <<variant, chan, chain_nodes, wpc, run, leaf, cur, turns,
              user_warnings, iters, visited, populations, first>>
streamVars == <<use_plain_responses, spc, curr_content, finish_reason,
                response_contents, reasoning_contents, reasoning_appended,
                shown, chunks, delivered, ending, now, last_task_time,
                edit_task, updates, reasoning_delivered, other_at,
                other_sending>>
vars == <<cacheAll, walkVars, streamVars>>

CachedKeys == {k \in Keys : msg_nodes[k] # 0}

Range(f) == {f[x] : x \in DOMAIN f}

\* Objects something still refers to: the cache, a handler's curr_node, the
\* node a responding handler created (response_nodes records it).
Live(mn, cn, rn) ==
  (Range(mn) \cup Range(cn) \cup UNION {Range(rn[h]) : h \in H}) \ {0}

\* Unreferenced objects are garbage: their storage is as good as new.
Sweep(f, live, init) == [o \in Objs |-> IF o \in live THEN f[o] ELSE init]

LiveNow == Live(msg_nodes, curr_node, response_nodes)
HasFresh(k) == \E o \in Objs : KeyOf(o) = k /\ o \notin LiveNow
FreshObj(k) ==
  CHOOSE o \in Objs : /\ KeyOf(o) = k /\ o \notin LiveNow
                      /\ \A p \in Objs : (KeyOf(p) = k /\ p \notin LiveNow) => o <= p

\* The event loop resumes h (every handler is at an await) or h is running.
Resumable(h) == running = 0
Continuing(h) == running = h

Ended(h) == pc[h] \in {"done", "crashed"}
InProgress(h) == pc[h] \notin {"idle", "done", "crashed"}

\* asyncio.Lock.acquire() returns at once when the lock is unlocked and
\* nobody is queued for it; otherwise the caller queues and suspends.
LockIdle(o) == lock[o] = 0 /\ waiters[o] = <<>>

\* lock.release(): asyncio raises RuntimeError when the lock is not locked;
\* it does not check who locked it.
CanRelease(o) == lock[o] # 0

\* The scenario of the specifications without on_message handlers.
NoHandlers ==
  [handlers |-> 0, faulty |-> {}, anyref |-> FALSE, thread |-> 0,
   responders |-> {}, load |-> 0]

\* ------------------------------------------------- the chain walk's data
WalkKeys == 3           \* messages on the chat surface of the walk
IterCap == 5            \* loop iterations counted (the count saturates)
WalkMaxMessages == 2    \* largest config["max_messages"] tried

WalkIds == 1..WalkKeys

\* What the chat surface holds for a message.  kind: "text" a user's text,
\* "mention" a user's message that is nothing but the bot's mention, "file"
\* a user's text with an attachment that is neither text nor image, "reply"
\* a message of the bot.  ref: the message that parent resolution finds
\* (0: none); ok: whether fetching it succeeds.
Unread == [kind |-> "unread", ref |-> 0, ok |-> TRUE]
Kinds == {"text", "mention", "file", "reply"}
Posts ==
  {p \in [kind : Kinds, ref : 0..WalkKeys, ok : BOOLEAN] : p.ref = 0 => p.ok}

\* msg_nodes has no entry / MsgNode() as constructed.
NoNode ==
  [text |-> "absent", role |-> "assistant", parent_msg |-> 0,
   has_bad_attachments |-> FALSE, fetch_parent_failed |-> FALSE]
NewNode == [NoNode EXCEPT !.text = "null"]

NoResult == [turns |-> <<>>, warnings |-> {}]

WalkOff ==
  /\ variant = "none"
  /\ chan = [m \in WalkIds |-> Unread]
  /\ chain_nodes = [m \in WalkIds |-> NoNode]
  /\ wpc = "off"
  /\ run = 0
  /\ leaf = 0
  /\ cur = 0
  /\ turns = <<>>
  /\ user_warnings = {}
  /\ iters = 0
  /\ visited = <<>>
  /\ populations = 0
  /\ first = NoResult

\* ------------------------------------------------ the response stream's data
MaxChunks == 4          \* chunks the backend delivers
MaxDelta == 2           \* characters of content in one delta

PlainLimit == 2         \* 2000, scaled
EmbedLimit == 4         \* 4096, scaled
STREAMING_INDICATOR == <<-2>>     \* " o", scaled to one character
EDIT_DELAY_SECONDS == 1
EMBED_COLOR_COMPLETE == "dark_green"
EMBED_COLOR_INCOMPLETE == "orange"
TicksPerSecond == 1     \* resolution of the model's clock
MaxTime == 2            \* ticks the clock counts before it stops
\* last_task_time starts at 0 and the clock reads seconds since 1970: the
\* first reading is at least EDIT_DELAY_SECONDS later.
StartTime == EDIT_DELAY_SECONDS * TicksPerSecond
ReasoningPrefix == <<-1>>         \* "Reasoning:\n", scaled to one character

StreamOff ==
  /\ use_plain_responses = FALSE
  /\ spc = "off"
  /\ curr_content = <<>>
  /\ finish_reason = "none"
  /\ response_contents = <<>>
  /\ reasoning_contents = <<>>
  /\ reasoning_appended = FALSE
  /\ reasoning_delivered = <<>>
  /\ other_at = 0
  /\ other_sending = FALSE
  /\ shown = <<>>
  /\ chunks = 0
  /\ delivered = <<>>
  /\ ending = "none"
  /\ now = 0
  /\ last_task_time = 0
  /\ edit_task = "none"
  /\ updates = <<>>

\* ------------------------------------------------------------- the cache
InitCache ==
  /\ msg_nodes = [k \in Keys |-> 0]
  /\ node = [o \in Objs |-> MsgNode(0)]
  /\ lock = [o \in Objs |-> 0]
  /\ waiters = [o \in Objs |-> <<>>]
  /\ nextId = 1
  /\ author = [k \in Keys |-> "none"]
  /\ reference = [k \in Keys |-> 0]
  /\ pc = [h \in H |-> "idle"]
  /\ new_msg = [h \in H |-> 0]
  /\ curr_msg = [h \in H |-> 0]
  /\ curr_node = [h \in H |-> 0]
  /\ messages = [h \in H |-> <<>>]
  /\ response_msgs = [h \in H |-> <<>>]
  /\ response_nodes = [h \in H |-> <<>>]
  /\ sent = [h \in H |-> 0]
  /\ idx = [h \in H |-> 0]
  /\ victims = [h \in H |-> <<>>]
  /\ how = [h \in H |-> "none"]
  /\ running = 0
  /\ inserted = {}
  /\ overlap = FALSE

\* Two handlers, every fault, a message may continue any earlier message.
Init ==
  /\ InitCache /\ WalkOff /\ StreamOff
  /\ max_messages = DefaultMaxMessages
  /\ env = [handlers |-> Pair, faulty |-> H, anyref |-> TRUE, thread |-> 0,
            responders |-> H, load |-> NumHandlers]

\* Three handlers on a healthy network, each message continuing the latest
\* message of the channel (or none).
InitThree ==
  /\ InitCache /\ WalkOff /\ StreamOff
  /\ max_messages = DefaultMaxMessages
  /\ env = [handlers |-> Trio, faulty |-> {}, anyref |-> FALSE, thread |-> 0,
            responders |-> H, load |-> NumHandlers]

\* Four handlers on a healthy network; the backend delivers content to the
\* first handler only (the stream of the others raises at once); the first
\* three messages continue nothing, the later ones reply to ThreadRoot; the
\* users wait with a further message while three handlers are in progress.
InitFour ==
  /\ InitCache /\ WalkOff /\ StreamOff
  /\ max_messages = DefaultMaxMessages
  /\ env = [handlers |-> NumHandlers, faulty |-> {}, anyref |-> FALSE,
            thread |-> ThreadRoot, responders |-> {1}, load |-> Trio]

\* The messages a user's new message `id` may continue (0: none).
References(id) ==
  IF env.thread # 0 THEN (IF id > env.thread + 1 THEN {env.thread} ELSE {0})
  ELSE IF env.anyref THEN 0..(id - 1)
  ELSE {0, id - 1}

\* A user posts a message (continuing any earlier message, or none) and the
\* gateway dispatches on_message for it.  The handler runs to its first
\* await (get_config) before the walk.
Start(h) ==
  /\ Resumable(h)
  /\ pc[h] = "idle"
  /\ h <= env.handlers
  /\ Cardinality({g \in H : InProgress(g)}) < env.load
  /\ \A g \in H : g < h => pc[g] # "idle"
  /\ nextId <= MaxKey
  /\ \E r \in References(nextId) :
       /\ author' = [author EXCEPT ![nextId] = "user"]
       /\ reference' = [reference EXCEPT ![nextId] = r]
  /\ new_msg' = [new_msg EXCEPT ![h] = nextId]
  /\ curr_msg' = [curr_msg EXCEPT ![h] = nextId]
  /\ nextId' = nextId + 1
  /\ pc' = [pc EXCEPT ![h] = "walk"]
  /\ running' = 0
  /\ overlap' = (overlap \/ \E g \in H : InProgress(g))
  /\ UNCHANGED <<cacheVars, curr_node, messages, response_msgs,
                 response_nodes, sent, idx, victims, how, max_messages,
                 env, inserted>>
  /\ UNCHANGED <<walkVars, streamVars>>

\* while curr_msg != None and len(messages) < max_messages:
\*     curr_node = msg_nodes.setdefault(curr_msg.id, MsgNode())
\*     async with curr_node.lock:        (acquire)
\* When the loop is left the history goes to the backend call, which awaits.
Visit(h) ==
  /\ pc[h] = "walk"
  /\ Resumable(h) \/ Continuing(h)
  /\ IF curr_msg[h] = 0 \/ Len(messages[h]) >= max_messages
     THEN /\ pc' = [pc EXCEPT ![h] = "stream"]
          /\ running' = 0
          /\ messages' = [messages EXCEPT ![h] = <<>>]
          /\ curr_msg' = [curr_msg EXCEPT ![h] = 0]
          /\ UNCHANGED <<cacheVars, curr_node, inserted, overlap>>
     ELSE LET k == curr_msg[h]
              fresh == msg_nodes[k] = 0
              o == IF fresh THEN FreshObj(k) ELSE msg_nodes[k]
          IN /\ fresh => HasFresh(k)
             /\ msg_nodes' = [msg_nodes EXCEPT ![k] = o]
             /\ inserted' = inserted \cup {k}
             /\ UNCHANGED overlap
             /\ curr_node' = [curr_node EXCEPT ![h] = o]
             /\ UNCHANGED <<node, messages, curr_msg>>
             /\ IF LockIdle(o)
                THEN /\ lock' = [lock EXCEPT ![o] = h]
                     /\ pc' = [pc EXCEPT ![h] = "locked"]
                     /\ running' = h
                     /\ UNCHANGED waiters
                ELSE /\ waiters' = [waiters EXCEPT ![o] = Append(@, h)]
                     /\ pc' = [pc EXCEPT ![h] = "lockwait"]
                     /\ running' = 0
                     /\ UNCHANGED lock
  /\ UNCHANGED <<surfaceVars, new_msg, response_msgs, response_nodes,
                 sent, idx, victims, how, max_messages, env>>
  /\ UNCHANGED <<walkVars, streamVars>>

\* The lock was released and this handler is the first waiter: acquire()
\* returns.
LockGranted(h) ==
  /\ pc[h] = "lockwait"
  /\ Resumable(h)
  /\ LET o == curr_node[h]
     IN /\ lock[o] = 0
        /\ waiters[o] # <<>> /\ Head(waiters[o]) = h
        /\ lock' = [lock EXCEPT ![o] = h]
        /\ waiters' = [waiters EXCEPT ![o] = Tail(@)]
  /\ pc' = [pc EXCEPT ![h] = "locked"]
  /\ running' = h
  /\ UNCHANGED <<msg_nodes, node, surfaceVars, new_msg, curr_msg,
                 curr_node, messages, response_msgs, response_nodes, sent,
                 idx, victims, how, max_messages, env, inserted, overlap>>
  /\ UNCHANGED <<walkVars, streamVars>>

\* if curr_node.text == None:  enter the population block, whose first
\* statement with an await is the gather of the attachment downloads.
Unpopulated(o) == node[o].text = "null"

Check(h) ==
  /\ pc[h] = "locked"
  /\ Continuing(h)
  /\ IF Unpopulated(curr_node[h])
     THEN /\ pc' = [pc EXCEPT ![h] = "pop_fetch"]
          /\ running' = 0
     ELSE /\ pc' = [pc EXCEPT ![h] = "turn"]
          /\ running' = h
  /\ UNCHANGED <<cacheVars, surfaceVars, new_msg, curr_msg, curr_node,
                 messages, response_msgs, response_nodes, sent, idx, victims,
                 how, max_messages, env, inserted, overlap>>
  /\ UNCHANGED <<walkVars, streamVars>>

\* An exception leaves on_message from inside the async with: the lock is
\* released on the way out and nothing of the handler runs any more.
Crash(h, o, why) ==
  /\ pc' = [pc EXCEPT ![h] = "crashed"]
  /\ how' = [how EXCEPT ![h] = why]
  /\ running' = 0
  /\ curr_node' = [curr_node EXCEPT ![h] = 0]
  /\ curr_msg' = [curr_msg EXCEPT ![h] = 0]
  /\ messages' = [messages EXCEPT ![h] = <<>>]
  /\ LET live == Live(msg_nodes, curr_node', response_nodes)
     IN /\ lock' = Sweep([lock EXCEPT ![o] = 0], live, 0)
        /\ node' = Sweep(node, live, MsgNode(0))

\* The downloads return: text, images, role, user_id and has_bad_attachments
\* are assigned, then parent resolution awaits the chat surface.  A download
\* that raises leaves the block (and on_message: nothing catches it).
PopFetch(h) ==
  /\ pc[h] = "pop_fetch"
  /\ Resumable(h)
  /\ LET o == curr_node[h]
         k == curr_msg[h]
     IN \/ /\ node' = [node EXCEPT ![o].text = "own",
                                   ![o].role = IF author[k] = "bot"
                                               THEN "assistant" ELSE "user"]
           /\ pc' = [pc EXCEPT ![h] = "pop_parent"]
           /\ running' = 0
           /\ UNCHANGED <<lock, how, curr_node, curr_msg, messages>>
        \/ /\ author[k] = "user" /\ h \in env.faulty
           /\ Crash(h, o, "fetch_error")
  /\ UNCHANGED <<msg_nodes, waiters, surfaceVars, new_msg, response_msgs,
                 response_nodes, sent, idx, victims, max_messages, env, inserted, overlap>>
  /\ UNCHANGED <<walkVars, streamVars>>

\* Parent resolution returns: the parent message, or NotFound/HTTPException
\* (caught: fetch_parent_failed), or another exception (not caught).
PopParent(h) ==
  /\ pc[h] = "pop_parent"
  /\ Resumable(h)
  /\ LET o == curr_node[h]
         k == curr_msg[h]
     IN \/ /\ node' = [node EXCEPT ![o].parent_msg = reference[k]]
           /\ pc' = [pc EXCEPT ![h] = "turn"]
           /\ running' = h
           /\ UNCHANGED <<lock, how, curr_node, curr_msg, messages>>
        \/ /\ h \in env.faulty
           /\ node' = [node EXCEPT ![o].fetch_parent_failed = TRUE]
           /\ pc' = [pc EXCEPT ![h] = "turn"]
           /\ running' = h
           /\ UNCHANGED <<lock, how, curr_node, curr_msg, messages>>
        \/ h \in env.faulty /\ Crash(h, o, "parent_error")
  /\ UNCHANGED <<msg_nodes, waiters, surfaceVars, new_msg, response_msgs,
                 response_nodes, sent, idx, victims, max_messages, env, inserted, overlap>>
  /\ UNCHANGED <<walkVars, streamVars>>

\* Whether the response that message k belongs to is still being generated.
Streaming(k) ==
  \E g \in H : /\ pc[g] \in {"stream", "sending"}
               /\ k = sent[g] \/ k \in Range(response_msgs[g])

\* The turn built from the node, the end of the async with (release), and
\* curr_msg = curr_node.parent_msg.
Turn(h) ==
  /\ pc[h] = "turn"
  /\ Continuing(h)
  /\ LET o == curr_node[h]
         k == curr_msg[h]
     IN IF CanRelease(o)
        THEN /\ messages' = [messages EXCEPT ![h] =
                   Append(@, [id |-> k, text |-> node[o].text,
                              role |-> node[o].role])]
             /\ curr_msg' = [curr_msg EXCEPT ![h] = node[o].parent_msg]
             /\ curr_node' = [curr_node EXCEPT ![h] = 0]
             /\ pc' = [pc EXCEPT ![h] = "walk"]
             /\ running' = h
             /\ LET live == Live(msg_nodes, curr_node', response_nodes)
                IN /\ lock' = Sweep([lock EXCEPT ![o] = 0], live, 0)
                   /\ node' = Sweep(node, live, MsgNode(0))
             /\ UNCHANGED how
        ELSE Crash(h, o, "release_error")
  /\ UNCHANGED <<msg_nodes, waiters, surfaceVars, new_msg, response_msgs,
                 response_nodes, sent, idx, victims, max_messages, env, inserted, overlap>>
  /\ UNCHANGED <<walkVars, streamVars>>

\* start_next_msg: await reply_to_msg.reply(...).  The chat surface creates
\* the message (and shows it to everyone) while the handler is suspended.
SendBegin(h) ==
  /\ pc[h] = "stream"
  /\ Resumable(h)
  /\ h \in env.responders
  /\ Len(response_msgs[h]) < MaxResp
  /\ nextId <= MaxKey
  /\ author' = [author EXCEPT ![nextId] = "bot"]
  /\ reference' = [reference EXCEPT ![nextId] =
        IF response_msgs[h] = <<>> THEN new_msg[h]
        ELSE response_msgs[h][Len(response_msgs[h])]]
  /\ sent' = [sent EXCEPT ![h] = nextId]
  /\ nextId' = nextId + 1
  /\ pc' = [pc EXCEPT ![h] = "sending"]
  /\ running' = 0
  /\ UNCHANGED <<cacheVars, new_msg, curr_msg, curr_node, messages,
                 response_msgs, response_nodes, idx, victims, how,
                 max_messages, env, inserted, overlap>>
  /\ UNCHANGED <<walkVars, streamVars>>

\* reply() returns:  response_msgs.append(response_msg)
\*                   msg_nodes[response_msg.id] = MsgNode(parent_msg=new_msg)
\*                   await msg_nodes[response_msg.id].lock.acquire()
\* The lock is new, so acquire() returns without suspending.
SendReturn(h) ==
  /\ pc[h] = "sending"
  /\ Resumable(h)
  /\ LET r == sent[h]
         o == FreshObj(r)
     IN /\ HasFresh(r)
        /\ response_msgs' = [response_msgs EXCEPT ![h] = Append(@, r)]
        /\ response_nodes' = [response_nodes EXCEPT ![h] = Append(@, o)]
        /\ msg_nodes' = [msg_nodes EXCEPT ![r] = o]
        /\ inserted' = inserted \cup {r}
        /\ UNCHANGED overlap
        /\ LET live == Live(msg_nodes', curr_node, response_nodes')
           IN /\ node' = Sweep([node EXCEPT ![o] = MsgNode(new_msg[h])],
                               live, MsgNode(0))
              /\ lock' = Sweep([lock EXCEPT ![o] = h], live, 0)
  /\ sent' = [sent EXCEPT ![h] = 0]
  /\ pc' = [pc EXCEPT ![h] = "stream"]
  /\ running' = 0
  /\ UNCHANGED <<waiters, surfaceVars, new_msg, curr_msg, curr_node, messages,
                 idx, victims, how, max_messages, env>>
  /\ UNCHANGED <<walkVars, streamVars>>

\* The stream loop is left: the finish reason arrived ("ok"), or the backend
\* stream, a send or an awaited edit raised ("error": except Exception).
\* Finalisation follows without an await.
StreamEnd(h) ==
  /\ pc[h] = "stream"
  /\ Resumable(h)
  /\ \E kind \in {"ok", "error"} : how' = [how EXCEPT ![h] = kind]
  /\ idx' = [idx EXCEPT ![h] = 1]
  /\ pc' = [pc EXCEPT ![h] = "finalize"]
  /\ running' = h
  /\ UNCHANGED <<cacheVars, surfaceVars, new_msg, curr_msg, curr_node,
                 messages, response_msgs, response_nodes, sent, victims,
                 max_messages, env, inserted, overlap>>
  /\ UNCHANGED <<walkVars, streamVars>>

\* sorted(msg_nodes.keys())[: num_nodes - MAX_MESSAGE_NODES]
RECURSIVE SortedSeq(_)
SortedSeq(S) ==
  IF S = {} THEN <<>>
  ELSE LET m == CHOOSE x \in S : \A y \in S : x <= y
       IN <<m>> \o SortedSeq(S \ {m})

\* The slice taken from the wrong end of the sorted keys.
Newest(S, n) ==
  SubSeq(SortedSeq(S), Cardinality(S) - n + 1, Cardinality(S))

Oldest(S, n) == SubSeq(SortedSeq(S), 1, n)

\* The handler returns (or an exception ends it): its references go.  `how`
\* keeps the reason of an exception only.
Finish(h, end, why) ==
  /\ pc' = [pc EXCEPT ![h] = end]
  /\ how' = [how EXCEPT ![h] = why]
  /\ running' = 0
  /\ idx' = [idx EXCEPT ![h] = 0]
  /\ response_nodes' = [response_nodes EXCEPT ![h] = <<>>]

\* A slice that takes every key.
AllNodes(num_nodes) == num_nodes

\* num_nodes - MAX_MESSAGE_NODES, the length of the slice of sorted keys
NumVictims(num_nodes) == num_nodes - MAX_MESSAGE_NODES

\* for response_msg in response_msgs:
\*     msg_nodes[response_msg.id].text = "".join(response_contents)
\*     msg_nodes[response_msg.id].lock.release()
\* and, when the list is exhausted, the eviction snapshot.
Finalize(h) ==
  /\ pc[h] = "finalize"
  /\ Continuing(h)
  /\ IF idx[h] <= Len(response_msgs[h])
     THEN LET r == response_msgs[h][idx[h]]
              o == msg_nodes[r]
          IN IF o = 0
             THEN \* KeyError
                  /\ Finish(h, "crashed", "key_error")
                  /\ LET live == Live(msg_nodes, curr_node, response_nodes')
                     IN /\ node' = Sweep(node, live, MsgNode(0))
                        /\ lock' = Sweep(lock, live, 0)
                  /\ UNCHANGED victims
             ELSE IF CanRelease(o)
             THEN /\ node' = [node EXCEPT ![o].text = "resp"]
                  /\ lock' = [lock EXCEPT ![o] = 0]
                  /\ idx' = [idx EXCEPT ![h] = @ + 1]
                  /\ UNCHANGED <<pc, how, running, victims, response_nodes>>
             ELSE /\ Finish(h, "crashed", "release_error")
                  /\ LET live == Live(msg_nodes, curr_node, response_nodes')
                     IN /\ node' = Sweep([node EXCEPT ![o].text = "resp"],
                                         live, MsgNode(0))
                        /\ lock' = Sweep(lock, live, 0)
                  /\ UNCHANGED victims
     ELSE LET num_nodes == Cardinality(CachedKeys)
          IN IF num_nodes > MAX_MESSAGE_NODES
             THEN /\ victims' = [victims EXCEPT ![h] =
                        Oldest(CachedKeys, NumVictims(num_nodes))]
                  /\ pc' = [pc EXCEPT ![h] = "evict"]
                  /\ running' = h
                  /\ UNCHANGED <<node, lock, idx, how, response_nodes>>
             ELSE /\ Finish(h, "done", "none")
                  /\ LET live == Live(msg_nodes, curr_node, response_nodes')
                     IN /\ node' = Sweep(node, live, MsgNode(0))
                        /\ lock' = Sweep(lock, live, 0)
                  /\ UNCHANGED victims
  /\ UNCHANGED <<msg_nodes, waiters, surfaceVars, new_msg, curr_msg,
                 curr_node, messages, response_msgs, sent, max_messages,
                 env, inserted, overlap>>
  /\ UNCHANGED <<walkVars, streamVars>>

\* A pop without a default: msg_nodes.pop(msg_id).
PopStrict(present) == IF present THEN "removed" ELSE "key_error"

\* msg_nodes.pop(msg_id, None): a missing key is not an error.
PopOutcome(present) == "removed"

\* for msg_id in <snapshot>:
\*     async with msg_nodes.setdefault(msg_id, MsgNode()).lock:
\*         msg_nodes.pop(msg_id, None)
Evict(h) ==
  /\ pc[h] = "evict"
  /\ Continuing(h)
  /\ IF victims[h] = <<>>
     THEN /\ Finish(h, "done", "none")
          /\ LET live == Live(msg_nodes, curr_node, response_nodes')
             IN /\ node' = Sweep(node, live, MsgNode(0))
                /\ lock' = Sweep(lock, live, 0)
          /\ UNCHANGED <<msg_nodes, waiters, curr_node, victims, inserted, overlap>>
     ELSE LET k == Head(victims[h])
              fresh == msg_nodes[k] = 0
              o == IF fresh THEN FreshObj(k) ELSE msg_nodes[k]
          IN /\ fresh => HasFresh(k)
             /\ inserted' = inserted \cup {k}
             /\ UNCHANGED overlap
             /\ UNCHANGED <<idx, how, response_nodes>>
             /\ IF LockIdle(o)
                THEN \* acquire, pop, release in one stretch
                     /\ msg_nodes' = [msg_nodes EXCEPT ![k] = 0]
                     /\ victims' = [victims EXCEPT ![h] = Tail(@)]
                     /\ LET live == Live(msg_nodes', curr_node, response_nodes)
                        IN /\ node' = Sweep(node, live, MsgNode(0))
                           /\ lock' = Sweep(lock, live, 0)
                     /\ UNCHANGED <<waiters, curr_node, pc>>
                     /\ running' = h
                ELSE /\ msg_nodes' = [msg_nodes EXCEPT ![k] = o]
                     /\ waiters' = [waiters EXCEPT ![o] = Append(@, h)]
                     /\ curr_node' = [curr_node EXCEPT ![h] = o]
                     /\ pc' = [pc EXCEPT ![h] = "evictwait"]
                     /\ running' = 0
                     /\ UNCHANGED <<victims, node, lock>>
  /\ UNCHANGED <<surfaceVars, new_msg, curr_msg, messages, response_msgs,
                 sent, max_messages, env>>
  /\ UNCHANGED <<walkVars, streamVars>>

\* The awaited lock is granted: pop the key (whatever object it now holds)
\* and release.
EvictGranted(h) ==
  /\ pc[h] = "evictwait"
  /\ Resumable(h)
  /\ LET o == curr_node[h]
     IN /\ lock[o] = 0
        /\ waiters[o] # <<>> /\ Head(waiters[o]) = h
        /\ waiters' = [waiters EXCEPT ![o] = Tail(@)]
  /\ curr_node' = [curr_node EXCEPT ![h] = 0]
  /\ IF PopOutcome(msg_nodes[Head(victims[h])] # 0) = "removed"
     THEN /\ msg_nodes' = [msg_nodes EXCEPT ![Head(victims[h])] = 0]
          /\ victims' = [victims EXCEPT ![h] = Tail(@)]
          /\ pc' = [pc EXCEPT ![h] = "evict"]
          /\ running' = h
          /\ UNCHANGED <<idx, how, response_nodes>>
     ELSE /\ Finish(h, "crashed", "key_error")
          /\ UNCHANGED <<msg_nodes, victims>>
  /\ LET live == Live(msg_nodes', curr_node', response_nodes')
     IN /\ node' = Sweep(node, live, MsgNode(0))
        /\ lock' = Sweep(lock, live, 0)
  /\ UNCHANGED <<surfaceVars, new_msg, curr_msg, messages, response_msgs,
                 sent, max_messages, env, inserted, overlap>>
  /\ UNCHANGED <<walkVars, streamVars>>

Next ==
  \E h \in H :
    \/ Start(h) \/ Visit(h) \/ LockGranted(h) \/ Check(h)
    \/ PopFetch(h) \/ PopParent(h) \/ Turn(h)
    \/ SendBegin(h) \/ SendReturn(h) \/ StreamEnd(h)
    \/ Finalize(h) \/ Evict(h) \/ EvictGranted(h)

Spec == Init /\ [][Next]_vars
SpecFour == InitFour /\ [][Next]_vars
SpecThree == InitThree /\ [][Next]_vars

\* A step of a handler that has started.  The event loop runs every task
\* that is ready and every external call returns, so a handler that can take
\* a step eventually takes one; only the arrival of a message (Start) is left
\* to the environment.
Proceed ==
  \E h \in H :
    \/ Visit(h) \/ LockGranted(h) \/ Check(h)
    \/ PopFetch(h) \/ PopParent(h) \/ Turn(h)
    \/ SendBegin(h) \/ SendReturn(h) \/ StreamEnd(h)
    \/ Finalize(h) \/ Evict(h) \/ EvictGranted(h)

SpecLive == InitFour /\ [][Next]_vars /\ WF_vars(Proceed)

\* ------------------------------------------------- properties of the cache
InPopulation(h) == pc[h] \in {"pop_fetch", "pop_parent"}

\* C1: single population.  Handlers that walk onto the same message key
\* serialise on the node's lock, so at no time are two handlers inside the
\* population block (the body of `if curr_node.text == None`) for the same
\* key: the block runs once and everybody reads what it wrote.
C1_SinglePopulation ==
  \A h, g \in H :
    (h # g /\ InPopulation(h) /\ InPopulation(g)) => curr_msg[h] # curr_msg[g]

AppendedTurn(h) == Len(messages'[h]) = Len(messages[h]) + 1
LastTurn(h) == messages'[h][Len(messages'[h])]

\* C2: a chain walk never builds a turn from the node of a response message
\* whose response is still being streamed (its text is null or partial): the
\* walk blocks on the node's lock until the responding handler has finished.
C2_NoPartialResponseTurn ==
  [][\A h \in H : AppendedTurn(h) =>
        /\ LastTurn(h).text # "null"
        /\ ~Streaming(LastTurn(h).id)]_vars

\* C3: no node lock is left held once a handler has ended, however it ended:
\* every lock the handler acquired has been released.
C3_NoLockHeldAfterEnd ==
  \A h \in H : Ended(h) => \A o \in Objs : lock[o] # h

Quiescent == \A h \in H : ~InProgress(h)

\* C4: eviction bound.  Once every started handler has ended (normally or by
\* an exception) the cache holds at most MAX_MESSAGE_NODES entries.
C4_EvictionBound ==
  Quiescent => Cardinality(CachedKeys) <= MAX_MESSAGE_NODES

RECURSIVE Largest(_, _)
Largest(S, n) ==
  IF n = 0 \/ S = {} THEN {}
  ELSE LET m == CHOOSE x \in S : \A y \in S : y <= x
       IN {m} \cup Largest(S \ {m}, n - 1)

EvictionCompleted(h) == pc[h] \in {"finalize", "evict"} /\ pc'[h] = "done"
Retained == Largest(inserted, MAX_MESSAGE_NODES)

\* C5 (as stated): oldest-first retention.  Whenever the eviction step of a
\* handler has completed, the keys remaining in msg_nodes are exactly the
\* MAX_MESSAGE_NODES largest keys inserted so far (all of them if fewer).
C5_RetainedWheneverEvictionCompletes ==
  [][\A h \in H : EvictionCompleted(h) => CachedKeys' = Retained']_vars

\* C5 (amended): the MAX_MESSAGE_NODES largest keys inserted so far are never
\* evicted; and when handlers are processed one after another (no two in
\* progress at the same time), the keys remaining after a handler's eviction
\* step are exactly those.
C5_RetainedWhenSequential ==
  /\ [](Retained \subseteq CachedKeys)
  /\ [][\A h \in H : (EvictionCompleted(h) /\ ~overlap) =>
          CachedKeys' = Retained']_vars

\* C5 witness: handlers ran one after another, more than MAX_MESSAGE_NODES
\* keys were inserted, and the last handler's eviction step removed the
\* oldest ones.
C5_Witness ==
  /\ ~overlap /\ Quiescent
  /\ \E h \in H : pc[h] = "done" /\ new_msg[h] = nextId - 2
  /\ Cardinality(inserted) > MAX_MESSAGE_NODES
  /\ CachedKeys = Retained
  /\ CachedKeys # inserted

\* C14: an attachment download that raises during population does not end
\* the handler: the node is populated without that content and the handler
\* goes on to build the history and respond.
C14_FetchErrorTolerated ==
  \A h \in H : ~(pc[h] = "crashed" /\ how[h] = "fetch_error")

\* C15: no duplicate node objects for one key.  While a key stays in
\* msg_nodes the object held under it is never replaced by a different
\* object, so every handler that obtains the node of that key (walk, eviction,
\* response tracker) refers to the same MsgNode and the same lock.
C15_NodeNeverReplaced ==
  [][\A k \in Keys :
       (msg_nodes[k] # 0 /\ msg_nodes'[k] # 0) =>
         msg_nodes'[k] = msg_nodes[k]]_vars

\* The handler that takes the step.
Acts(h) == pc'[h] # pc[h] \/ idx'[h] # idx[h]

\* A field of node object o, which is in use before and after the step, is
\* written by the step.
Written(o) == o \in LiveNow /\ o \in LiveNow' /\ node'[o] # node[o]

\* C16: every write to a node's fields after the node has been placed in the
\* cache is performed by a handler that holds that node's lock at the time of
\* the write.
C16_WritesUnderLock ==
  [][\A o \in Objs : Written(o) => \E h \in H : Acts(h) /\ lock[o] = h]_vars

Removed(k) == msg_nodes[k] # 0 /\ msg_nodes'[k] = 0

\* C17: eviction never removes from the cache a node whose lock is held by
\* another handler: a node that is being populated, or that belongs to a
\* response still being streamed, stays in msg_nodes under its key until
\* that handler releases the lock.
C17_NoEvictionOfLockedNode ==
  [][\A k \in Keys : Removed(k) =>
        \/ lock[msg_nodes[k]] = 0
        \/ \E h \in H : Acts(h) /\ lock[msg_nodes[k]] = h]_vars

\* C18: an error raised by parent-message resolution does not end the
\* handler: the node gets fetch_parent_failed, the walk stops at it and the
\* handler goes on to respond with the turns collected so far.
C18_ParentErrorTolerated ==
  \A h \in H : ~(pc[h] = "crashed" /\ how[h] = "parent_error")

\* ======================================================== the chain walk
\* One handler walks the reply chain of `leaf` (run 1, populating the nodes)
\* and then walks it again (run 2).  Nothing else touches the cache, so a
\* loop iteration is one step.

InitWalk ==
  /\ InitCache /\ StreamOff
  /\ env = NoHandlers
  /\ max_messages \in 1..WalkMaxMessages
  /\ variant \in {"kuyaribot", "chat"}
  /\ leaf \in WalkIds
  /\ cur = leaf
  /\ chan = [m \in WalkIds |-> Unread]
  /\ chain_nodes = [m \in WalkIds |-> NoNode]
  /\ wpc = "loop"
  /\ run = 1
  /\ turns = <<>>
  /\ user_warnings = {}
  /\ iters = 0
  /\ visited = <<>>
  /\ populations = 0
  /\ first = NoResult

\* The population block: text, role, has_bad_attachments from the message,
\* then parent resolution (parent_msg, or fetch_parent_failed when the
\* fetch raises).
Populate(n, post) ==
  [n EXCEPT !.text = IF post.kind = "mention" THEN "" ELSE "text",
            !.role = IF post.kind = "reply" THEN "assistant" ELSE "user",
            !.has_bad_attachments = (post.kind = "file"),
            !.parent_msg = IF post.ref # 0 /\ post.ok THEN post.ref ELSE 0,
            !.fetch_parent_failed = (post.ref # 0 /\ ~post.ok)]

Warning(w, n) == [w |-> w, n |-> n]

\* cogs/chat.py adds its warnings inside the population block.
PopulationWarnings(m, post) ==
  (IF post.kind = "file" THEN {Warning("Ignored attachment(s) from", m)}
   ELSE {})
  \cup (IF post.ref # 0 /\ ~post.ok
        THEN {Warning("Failed to fetch parent message", post.ref)} ELSE {})

\* kuyaribot.py derives its warnings from the node on every visit.
NodeWarnings(n, count) ==
  (IF n.has_bad_attachments THEN {Warning("Unsupported attachments", 0)}
   ELSE {})
  \cup (IF n.fetch_parent_failed
           \/ (n.parent_msg # 0 /\ count = max_messages)
        THEN {Warning("Only using last messages", count)} ELSE {})

\* kuyaribot.py appends a turn when the node has content; cogs/chat.py
\* always appends one, taking the role from the message's author.
TurnsAfter(ts, m, n, post) ==
  IF variant = "kuyaribot"
  THEN IF n.text # "" THEN Append(ts, [msg |-> m, role |-> n.role,
                                       text |-> n.text])
       ELSE ts
  ELSE Append(ts, [msg |-> m,
                   role |-> IF post.kind = "reply" THEN "assistant"
                            ELSE "user",
                   text |-> n.text])

LoopRuns == cur # 0 /\ Len(turns) < max_messages

Visited(m, post, n, populated) ==
  /\ chan' = [chan EXCEPT ![m] = post]
  /\ chain_nodes' = [chain_nodes EXCEPT ![m] = n]
  /\ turns' = TurnsAfter(turns, m, n, post)
  /\ user_warnings' = user_warnings \cup
       (IF variant = "kuyaribot" THEN NodeWarnings(n, Len(turns'))
        ELSE IF populated THEN PopulationWarnings(m, post) ELSE {})
  /\ cur' = n.parent_msg
  /\ iters' = IF iters < IterCap THEN iters + 1 ELSE iters
  /\ visited' = IF Len(visited) < IterCap THEN Append(visited, m)
                ELSE visited
  /\ populations' = IF populated /\ populations < IterCap
                    THEN populations + 1 ELSE populations

\* One iteration of `while curr_msg != None and len(messages) < max_messages`.
Iterate ==
  /\ wpc = "loop"
  /\ LoopRuns
  /\ LET m == cur
         n == IF chain_nodes[m] = NoNode THEN NewNode ELSE chain_nodes[m]
     IN IF n.text = "null"
        THEN \E post \in (IF chan[m] = Unread THEN Posts ELSE {chan[m]}) :
               Visited(m, post, Populate(n, post), TRUE)
        ELSE Visited(m, chan[m], n, FALSE)
  /\ UNCHANGED <<variant, wpc, run, leaf, first>>
  /\ UNCHANGED <<cacheAll, streamVars>>

\* The loop is left; the same message is handled again with the same limits.
Rewalk ==
  /\ wpc = "loop"
  /\ ~LoopRuns
  /\ run = 1
  /\ first' = [turns |-> turns, warnings |-> user_warnings]
  /\ run' = 2
  /\ cur' = leaf
  /\ turns' = <<>>
  /\ user_warnings' = {}
  /\ iters' = 0
  /\ visited' = <<>>
  /\ populations' = 0
  /\ UNCHANGED <<variant, chan, chain_nodes, wpc, leaf>>
  /\ UNCHANGED <<cacheAll, streamVars>>

\* The loop of the second walk is left.
Return ==
  /\ wpc = "loop"
  /\ ~LoopRuns
  /\ run = 2
  /\ wpc' = "done"
  /\ UNCHANGED <<variant, chan, chain_nodes, run, leaf, cur, turns,
                 user_warnings, iters, visited, populations, first>>
  /\ UNCHANGED <<cacheAll, streamVars>>

NextWalk == Iterate \/ Rewalk \/ Return

\* The list as collected, not reversed.
AsCollected(q) == q

\* messages[::-1]
Reversed(q) == [i \in 1..Len(q) |-> q[Len(q) + 1 - i]]

\* messages.append(dict(role="system", ...)) when config["system_prompt"] is
\* set, then kwargs = dict(messages=messages[::-1], ...): what the backend is
\* handed.
SystemTurn == [msg |-> 0, role |-> "system", text |-> "text"]
Handed(system_prompt) ==
  Reversed(IF system_prompt THEN Append(turns, SystemTurn) ELSE turns)

SpecWalk == InitWalk /\ [][NextWalk]_vars

\* ---------------------------------------------- properties of the chain walk
Decreasing == \A m \in WalkIds : chan[m].ref < m
NoRevisit ==
  \A i, j \in DOMAIN visited : i # j => visited[i] # visited[j]

\* C6: chain termination.  When every parent has a strictly smaller key than
\* its child, the walk performs at most max_messages loop iterations and
\* never visits the same key twice.
C6_AtMostMaxMessagesIterations ==
  Decreasing => (iters <= max_messages /\ NoRevisit)

Populated(m) == chain_nodes[m].text \notin {"absent", "null"}

\* C7: when parent resolution yields a message whose identifier is greater
\* than or equal to the current message's, the walk sets fetch_parent_failed
\* on the current node and does not follow that parent.
C7_LaterParentRejected ==
  \A m \in WalkIds :
    (Populated(m) /\ chan[m].ok /\ chan[m].ref >= m) =>
      /\ chain_nodes[m].fetch_parent_failed
      /\ chain_nodes[m].parent_msg = 0

\* C8: walking again from the same leaf with the same limits over the
\* populated cache performs no population and yields the same ordered turns
\* and the same warning set as the walk that populated the nodes.
C8_RewalkIdempotent ==
  wpc = "done" =>
    /\ populations = 0
    /\ turns = first.turns
    /\ user_warnings = first.warnings

RECURSIVE AncestorWithin(_, _, _)
AncestorWithin(a, b, k) ==
  /\ k > 0
  /\ LET p == chain_nodes[b].parent_msg
     IN p # 0 /\ (p = a \/ AncestorWithin(a, p, k - 1))
Ancestor(a, b) == AncestorWithin(a, b, IterCap)

IsConversation(t) == t.role # "system"
HasTurn(m) ==
  Populated(m) /\ (variant = "chat" \/ chain_nodes[m].text # "")

\* C13: the turns handed to the backend are in chronological order: the walk
\* collects them newest to oldest and the list is reversed, so each
\* conversation turn is followed by the turn of a message further down the
\* reply chain (the parent's turn precedes its child's), the leaf's turn is
\* the last one, and the system prompt, if any, comes first.
C13_ChronologicalTurns ==
  \A system_prompt \in BOOLEAN :
    LET handed == Handed(system_prompt)
        conv == SelectSeq(handed, IsConversation)
    IN /\ \A i \in DOMAIN conv :
            i < Len(conv) => Ancestor(conv[i].msg, conv[i + 1].msg)
       /\ (conv # <<>> /\ HasTurn(leaf)) => conv[Len(conv)].msg = leaf
       /\ system_prompt => (handed[1] = SystemTurn /\ Tail(handed) = conv)

\* C13 witness: B (the leaf) replies to A, A has no parent, both have text;
\* the walk is over and the backend is handed [A, B].
C13_Witness ==
  /\ wpc = "done"
  /\ chan[leaf].ref # 0 /\ chan[leaf].ref < leaf
  /\ chan[chan[leaf].ref].ref = 0
  /\ Len(Handed(FALSE)) = 2
  /\ Handed(FALSE)[1].msg = chan[leaf].ref
  /\ Handed(FALSE)[2].msg = leaf
  /\ Handed(FALSE)[1].text # "" /\ Handed(FALSE)[2].text # ""

\* C19: a visited node whose text is empty and which has no image contributes
\* no turn: every turn of the history has non-empty content.  (No message of
\* the walk's chat surface carries an image, so a turn's content is its text.)
C19_NoEmptyTurn ==
  \A i \in DOMAIN turns : turns[i].text # ""

\* The loop has been left although the last visited node has a parent: the
\* history reached max_messages turns.
StoppedAtLimit == wpc \in {"loop", "done"} /\ ~LoopRuns /\ cur # 0

\* C20: the history has at most max_messages turns, and whenever the walk
\* stops because max_messages was reached while the last visited node still
\* has a parent, the warning 'Only using last N messages' is in the warning
\* set.
C20_TruncationWarned ==
  /\ Len(turns) <= max_messages
  /\ StoppedAtLimit =>
       \E w \in user_warnings : w.w = "Only using last messages"

\* ==================================================== the response stream
\* One handler consumes the backend's stream.  A character of content is the
\* ordinal of the chunk that brought it, a character of reasoning is 0.

InitStream ==
  /\ InitCache /\ WalkOff
  /\ env = NoHandlers
  /\ max_messages = DefaultMaxMessages
  /\ use_plain_responses \in BOOLEAN
  /\ spc = "stream"
  /\ curr_content = <<>>
  /\ finish_reason = "none"
  /\ response_contents = <<>>
  /\ reasoning_contents = <<>>
  /\ reasoning_appended = FALSE
  /\ reasoning_delivered = <<>>
  /\ other_at = 0
  /\ other_sending = FALSE
  /\ shown = <<>>
  /\ chunks = 0
  /\ delivered = <<>>
  /\ ending = "none"
  /\ now = StartTime
  /\ last_task_time = 0
  /\ edit_task = "none"
  /\ updates = <<>>

\* 2000 if use_plain_responses else (4096 - len(STREAMING_INDICATOR))
max_message_length ==
  IF use_plain_responses THEN PlainLimit
  ELSE EmbedLimit - Len(STREAMING_INDICATOR)

Chars(c, n) == [i \in 1..n |-> c]
Last(q) == q[Len(q)]

\* Content committed without the one-delta delay.
NewContentEager(prev, curr, fin) == prev \o curr

\* new_content = prev_content if finish_reason == None
\*               else prev_content + curr_content
NewContent(prev, curr, fin) == IF fin = "none" THEN prev ELSE prev \o curr

\* start_next_msg, and response_contents after
\*     if start_next_msg: response_contents.append("")
\*     response_contents[-1] += new_content
StartNextMsg(rc, new) ==
  IF rc = <<>> THEN TRUE ELSE Len(Last(rc) \o new) > max_message_length
Staged(rc, new) ==
  LET opened == IF StartNextMsg(rc, new) THEN Append(rc, <<>>) ELSE rc
  IN [opened EXCEPT ![Len(opened)] = @ \o new]

\* ready_to_edit without the comparison of the clock with last_task_time.
ReadyWhenIdle(task, t, last) == task \in {"none", "done", "failed"}

\* ready_to_edit = (edit_task == None or edit_task.done())
\*     and datetime.now().timestamp() - last_task_time >= EDIT_DELAY_SECONDS
ReadyToEdit(task, t, last) ==
  /\ task \in {"none", "done", "failed"}
  /\ t - last >= EDIT_DELAY_SECONDS * TicksPerSecond

\* An embed colour that ignores how the stream went.
ColorIncomplete(msg_split_incoming, is_good_finish) == EMBED_COLOR_INCOMPLETE

\* embed.color = EMBED_COLOR_COMPLETE if msg_split_incoming or is_good_finish
\*               else EMBED_COLOR_INCOMPLETE
EmbedColor(msg_split_incoming, is_good_finish) ==
  IF msg_split_incoming \/ is_good_finish THEN EMBED_COLOR_COMPLETE
  ELSE EMBED_COLOR_INCOMPLETE

\* choice.finish_reason of a finishing delta.
FinishReasons == {"stop", "end_turn", "length"}

\* finish_reason != None and finish_reason.lower() in ("stop", "end_turn")
IsGoodFinish(fin) == fin \in {"stop", "end_turn"}

\* A description that always carries the streaming marker.
MarkedDescription(text, is_final_edit) == [text |-> text, indicator |-> TRUE]

\* embed.description: the segment, followed by STREAMING_INDICATOR unless
\* the edit is final.
Description(text, is_final_edit) ==
  [text |-> text, indicator |-> ~is_final_edit]

\* Every reply goes to the triggering message.
ReplyToTrigger(msgs) == 0

\* reply_to_msg = new_msg if response_msgs == [] else response_msgs[-1]:
\* 0 is the triggering message, i the message of segment i.
ReplyTo(msgs) == Len(msgs)

\* An edit task that is left running.
NotAwaited(task) == {task}

\* Live updates in either mode.
AlwaysLive(plain) == TRUE

\* if not use_plain_responses:
LiveMode(plain) == ~plain

\* An exception handler inside the try block: what follows the loop still
\* runs.
ExceptResumes == "after"

\* except Exception: logging.exception(...): the handler's position once
\* the exception is caught, past the sends that follow the loop.
ExceptLeadsTo == "ended"

\* A loop that goes on after the finish reason.
NeverBreaks(fin) == FALSE

\* if finish_reason != None: break
LoopBreaks(fin) == fin # "none"

\* What `await edit_task` finds: a pending task runs to its end, which may be
\* an exception that the await re-raises.
Awaited(task) == IF task = "pending" THEN {"done", "failed"} ELSE {task}

\* A message on the chat surface: what it displays and what it replies to.
Message(description, reply_to) ==
  [text |-> description.text, indicator |-> description.indicator,
   reply_to |-> reply_to]

Chunk ==
  /\ spc = "stream"
  /\ ~LoopBreaks(finish_reason)
  /\ chunks < MaxChunks
  /\ chunks' = chunks + 1
  /\ \/ \* chunk.choices is empty
        UNCHANGED <<spc, curr_content, finish_reason, response_contents,
                    reasoning_contents, reasoning_delivered, shown,
                    delivered, ending, now,
                    last_task_time, edit_task, updates>>
     \/ \E n \in 0..MaxDelta, fin \in {"none"} \cup FinishReasons,
           r \in 0..1, task \in Awaited(edit_task), d1 \in 0..1,
           d2 \in 0..1, fails \in BOOLEAN :
          LET prev == curr_content
              curr == Chars(chunks + 1, n)
              new == NewContent(prev, curr, fin)
              rc == Staged(response_contents, new)
              start_next_msg == StartNextMsg(response_contents, new)
              ready_to_edit == ReadyToEdit(edit_task, now, last_task_time)
              msg_split_incoming ==
                fin = "none" /\ Len(Last(rc) \o curr) > max_message_length
              is_final_edit == fin # "none" \/ msg_split_incoming
              is_good_finish == IsGoodFinish(fin)
              description == Description(Last(rc), is_final_edit)
              staged == ~(response_contents = <<>> /\ new = <<>>)
              emits ==
                /\ staged
                /\ LiveMode(use_plain_responses)
                /\ start_next_msg \/ ready_to_edit \/ is_final_edit
          IN /\ d1 = 1 => (emits /\ edit_task = "pending")
             /\ d2 = 1 => (emits /\ start_next_msg)
             /\ fails => (emits /\ start_next_msg)
             /\ task # edit_task => emits
             /\ now + d1 + d2 <= MaxTime
             /\ finish_reason' = fin
             /\ curr_content' = curr
             /\ delivered' = delivered \o curr
             /\ reasoning_delivered' = reasoning_delivered \o Chars(0, r)
             /\ IF ~staged
                THEN UNCHANGED <<spc, response_contents, reasoning_contents,
                                 shown, ending, now, last_task_time,
                                 edit_task, updates>>
                ELSE /\ response_contents' = rc
                     /\ reasoning_contents' = reasoning_contents \o Chars(0, r)
                     /\ IF emits
                        THEN   /\ IF task = "failed" \/ fails
                                  THEN \* the awaited edit or the reply raises
                                       /\ spc' = ExceptLeadsTo
                                       /\ ending' = "raised"
                                       /\ edit_task' = task
                                       /\ now' = now + d1
                                                 + (IF task = "failed"
                                                    THEN 0 ELSE d2)
                                       /\ UNCHANGED <<shown, last_task_time,
                                                      updates>>
                                  ELSE /\ shown' =
                                            IF start_next_msg
                                            THEN Append(shown,
                                                   Message(description,
                                                           ReplyTo(shown)))
                                            ELSE [shown EXCEPT ![Len(shown)] =
                                                    Message(description,
                                                            @.reply_to)]
                                       /\ updates' = Append(updates,
                                            [at |-> now + d1,
                                             start |-> start_next_msg,
                                             final |-> is_final_edit,
                                             text |-> description.text,
                                             indicator |->
                                               description.indicator,
                                             color |-> EmbedColor(
                                               msg_split_incoming,
                                               is_good_finish),
                                             seg |-> Len(rc),
                                             split |-> msg_split_incoming,
                                             fin |-> fin,
                                             prior |-> task,
                                             other |-> other_at,
                                             reasoning |-> FALSE])
                                       /\ edit_task' =
                                            IF start_next_msg THEN task
                                            ELSE "pending"
                                       /\ now' = now + d1 + d2
                                       /\ last_task_time' = now'
                                       /\ UNCHANGED <<spc, ending>>
                        ELSE UNCHANGED <<spc, shown, ending, now,
                                         last_task_time, edit_task, updates>>
  /\ UNCHANGED <<use_plain_responses, reasoning_appended, other_at,
                 other_sending>>
  /\ UNCHANGED <<cacheAll, walkVars>>

\* Time passes while the handler waits for the next chunk.
Tick ==
  /\ spc = "stream"
  /\ now < MaxTime
  /\ now' = now + 1
  /\ UNCHANGED <<use_plain_responses, spc, curr_content, finish_reason,
                 response_contents, reasoning_contents, reasoning_appended,
                 reasoning_delivered, other_at, other_sending,
                 shown, chunks, delivered, ending, last_task_time, edit_task,
                 updates>>
  /\ UNCHANGED <<cacheAll, walkVars>>

\* The task made by asyncio.create_task(response_msgs[-1].edit(embed=embed))
\* runs to its end while the handler is suspended.
EditTaskRuns ==
  /\ spc \in {"stream", "after"}
  /\ edit_task = "pending"
  /\ edit_task' \in {"done", "failed"}
  /\ UNCHANGED <<use_plain_responses, spc, curr_content, finish_reason,
                 response_contents, reasoning_contents, reasoning_appended,
                 reasoning_delivered, other_at, other_sending,
                 shown, chunks, delivered, ending, now, last_task_time,
                 updates>>
  /\ UNCHANGED <<cacheAll, walkVars>>

\* Another handler schedules an edit of its own response and writes
\* last_task_time, a global of the module, in the same stretch.
OtherHandlerUpdate ==
  /\ spc = "stream"
  /\ ~use_plain_responses
  /\ last_task_time # now
  /\ last_task_time' = now
  /\ UNCHANGED <<use_plain_responses, spc, curr_content, finish_reason,
                 response_contents, reasoning_contents, reasoning_appended,
                 reasoning_delivered, other_at, other_sending,
                 shown, chunks, delivered, ending, now, edit_task, updates>>
  /\ UNCHANGED <<cacheAll, walkVars>>

\* Another handler starts a segment of its own response: it awaits
\* reply_to_msg.reply(embed=embed, silent=True).
OtherReplyBegin ==
  /\ spc = "stream"
  /\ ~use_plain_responses
  /\ ~other_sending
  /\ other_at' = now
  /\ other_sending' = TRUE
  /\ UNCHANGED <<use_plain_responses, spc, curr_content, finish_reason,
                 response_contents, reasoning_contents, reasoning_appended,
                 reasoning_delivered, shown, chunks, delivered, ending, now,
                 last_task_time, edit_task, updates>>
  /\ UNCHANGED <<cacheAll, walkVars>>

\* The other handler's reply() returns; it registers the node and writes
\* last_task_time = datetime.now().timestamp().
OtherReplyReturn ==
  /\ spc = "stream"
  /\ other_sending
  /\ other_sending' = FALSE
  /\ last_task_time' = now
  /\ UNCHANGED <<use_plain_responses, spc, curr_content, finish_reason,
                 response_contents, reasoning_contents, reasoning_appended,
                 reasoning_delivered, shown, chunks, delivered, ending, now,
                 edit_task, updates, other_at>>
  /\ UNCHANGED <<cacheAll, walkVars>>

\* `if finish_reason != None: break` on the chunk after the last one.
Finished ==
  /\ spc = "stream"
  /\ LoopBreaks(finish_reason)
  /\ spc' = "after"
  /\ ending' = "finished"
  /\ UNCHANGED <<use_plain_responses, curr_content, finish_reason,
                 response_contents, reasoning_contents, reasoning_appended,
                 reasoning_delivered, other_at, other_sending,
                 shown, chunks, delivered, now, last_task_time, edit_task,
                 updates>>
  /\ UNCHANGED <<cacheAll, walkVars>>

\* The backend's iterator is exhausted although no chunk carried a finish
\* reason.
Exhausted ==
  /\ spc = "stream"
  /\ finish_reason = "none"
  /\ spc' = "after"
  /\ ending' = "exhausted"
  /\ UNCHANGED <<use_plain_responses, curr_content, finish_reason,
                 response_contents, reasoning_contents, reasoning_appended,
                 reasoning_delivered, other_at, other_sending,
                 shown, chunks, delivered, now, last_task_time, edit_task,
                 updates>>
  /\ UNCHANGED <<cacheAll, walkVars>>

\* The backend stream raises: except Exception.
Raised ==
  /\ spc = "stream"
  /\ finish_reason = "none"
  /\ spc' = ExceptLeadsTo
  /\ ending' = "raised"
  /\ UNCHANGED <<use_plain_responses, curr_content, finish_reason,
                 response_contents, reasoning_contents, reasoning_appended,
                 reasoning_delivered, other_at, other_sending,
                 shown, chunks, delivered, now, last_task_time, edit_task,
                 updates>>
  /\ UNCHANGED <<cacheAll, walkVars>>

\* if reasoning_contents:
\*     response_contents.append(f"Reasoning:\n{reasoning_contents}")
WithReasoning(rc, reasoning) ==
  IF reasoning # <<>> THEN Append(rc, ReasoningPrefix \o reasoning) ELSE rc

\* for content in response_contents: reply to the triggering message, then to
\* the message sent before; the first k sends succeed.
RECURSIVE PlainMessages(_, _)
PlainMessages(rc, k) ==
  IF k = 0 THEN <<>>
  ELSE LET sent_before == PlainMessages(rc, k - 1)
       IN Append(sent_before,
                 Message([text |-> rc[k], indicator |-> FALSE],
                         ReplyTo(sent_before)))

\* After the loop: the reasoning segment; in live mode the pending edit is
\* awaited and the last message is edited once more to add the reasoning
\* field; in plain mode one message per segment (a send may raise, which ends
\* the sending).
AfterStream ==
  /\ spc = "after"
  /\ response_contents' = WithReasoning(response_contents, reasoning_contents)
  /\ reasoning_appended' = (reasoning_contents # <<>>)
  /\ IF use_plain_responses
     THEN \E k \in 0..Len(response_contents') :
            /\ shown' = PlainMessages(response_contents', k)
            /\ ending' = IF k < Len(response_contents') THEN "raised"
                         ELSE ending
            /\ UNCHANGED <<edit_task, updates>>
     ELSE IF reasoning_contents = <<>>
          THEN UNCHANGED <<shown, ending, edit_task, updates>>
          ELSE \E task \in Awaited(edit_task), fails \in BOOLEAN :
                 /\ edit_task' = task
                 /\ fails => shown # <<>>
                 /\ IF task = "failed" \/ fails
                    THEN ending' = "raised" /\ UNCHANGED updates
                    ELSE /\ UNCHANGED ending
                         /\ updates' =
                              IF shown = <<>> THEN updates
                              ELSE Append(updates,
                                     [Last(updates) EXCEPT
                                        !.at = now, !.start = FALSE,
                                        !.prior = task,
                                        !.reasoning = TRUE])
                 /\ UNCHANGED shown
  /\ spc' = "ended"
  /\ UNCHANGED <<use_plain_responses, curr_content, finish_reason,
                 reasoning_contents, reasoning_delivered, chunks,
                 delivered, now, last_task_time, other_at, other_sending>>
  /\ UNCHANGED <<cacheAll, walkVars>>

NextStream ==
  \/ Chunk \/ Tick \/ EditTaskRuns \/ OtherHandlerUpdate
  \/ Finished \/ Exhausted \/ Raised \/ AfterStream

SpecStream == InitStream /\ [][NextStream]_vars

\* The response stream next to another handler whose segment-start replies
\* take time: last_task_time is written when the reply has returned.
NextShared == NextStream \/ OtherReplyBegin \/ OtherReplyReturn

SpecShared == InitStream /\ [][NextShared]_vars

\* ------------------------------------------ properties of the response stream
\* C9: segment length bound.  At every point of the stream and at its end,
\* every element of response_contents has length at most max_message_length.
C9_SegmentsWithinLimit ==
  \A i \in DOMAIN response_contents :
    Len(response_contents[i]) <= max_message_length

RECURSIVE Join(_)
Join(q) == IF q = <<>> THEN <<>> ELSE Head(q) \o Join(Tail(q))

ContentSegments ==
  IF reasoning_appended
  THEN SubSeq(response_contents, 1, Len(response_contents) - 1)
  ELSE response_contents

\* C10: lossless assembly.  When the stream has ended, the concatenation of
\* the content segments equals the concatenation, in arrival order, of the
\* content of every delta the backend delivered.
C10_LosslessAssembly ==
  spc = "ended" => Join(ContentSegments) = delivered

Delay == EDIT_DELAY_SECONDS * TicksPerSecond
Throttled(i) ==
  ~updates[i].start /\ ~updates[i].final /\ ~updates[i].reasoning

\* C11: edit-rate bound.  Within one response in live-updating mode, an
\* update that is neither the start of a new segment nor a terminal update
\* (stream finished, or the next delta would overflow the segment) is emitted
\* at least EDIT_DELAY_SECONDS after the previously emitted update of that
\* response.
C11_EditRateBound ==
  \A i \in DOMAIN updates :
    (i > 1 /\ Throttled(i)) => updates[i].at - updates[i - 1].at >= Delay

\* C11 witness: a throttled update has been emitted after another update.
C11_Witness ==
  \E i \in DOMAIN updates :
    i > 1 /\ Throttled(i) /\ updates[i].at - updates[i - 1].at >= Delay

\* The stream delivered one non-empty content delta and then a delta with
\* finish_reason "stop" and no content; nothing raised.
HelloThenStop ==
  /\ ~use_plain_responses
  /\ spc = "ended" /\ ending = "finished"
  /\ chunks = 2
  /\ finish_reason = "stop"
  /\ curr_content = <<>>
  /\ delivered # <<>> /\ delivered = Chars(1, Len(delivered))
  /\ Len(delivered) <= max_message_length
  /\ reasoning_contents = <<>>

\* C12: in live-updating mode, a stream that delivers a single non-empty
\* content delta (no longer than max_message_length) and then a delta with
\* finish_reason "stop" produces exactly one segment, equal to that content,
\* and exactly one emitted update: terminal, the segment text without the
\* streaming marker, completion state complete.
C12_HelloThenStop ==
  HelloThenStop =>
    /\ response_contents = <<delivered>>
    /\ Len(updates) = 1
    /\ updates[1].start /\ updates[1].final
    /\ updates[1].text = delivered /\ ~updates[1].indicator
    /\ updates[1].color = EMBED_COLOR_COMPLETE
    /\ Len(shown) = 1
    /\ shown[1].text = delivered /\ ~shown[1].indicator

\* C12 witness: such a stream has ended and its one update is on display.
C12_Witness ==
  /\ HelloThenStop
  /\ Len(delivered) > 1
  /\ Len(updates) = 1 /\ updates[1].color = EMBED_COLOR_COMPLETE

\* C21: FINALIZED is absorbing.  Once a delta carrying a finish reason has
\* been processed, no later delta of the stream changes the segment list, the
\* reasoning buffer or the recorded finish reason, and none causes a content
\* update to be emitted: the loop breaks on the next chunk.
C21_FinalizedAbsorbing ==
  [][(spc = "stream" /\ finish_reason # "none") =>
       /\ UNCHANGED <<response_contents, reasoning_contents, finish_reason,
                      curr_content, updates, shown>>
       /\ chunks' = chunks]_vars

\* C21 witness: a delta with a finish reason was processed after content had
\* been assembled, and the loop has been left on the chunk after it.
C21_Witness ==
  /\ spc = "after" /\ ending = "finished"
  /\ finish_reason # "none"
  /\ chunks < MaxChunks
  /\ response_contents # <<>>

\* C22: every reasoning delta delivered up to and including the finishing
\* delta is appended, in arrival order, to the reasoning side buffer, whether
\* or not any content has been received yet.
C22_ReasoningAccumulated == reasoning_contents = reasoning_delivered

\* The terminal content updates of segment i.
TerminalUpdates(i) ==
  {j \in DOMAIN updates :
     updates[j].seg = i /\ updates[j].final /\ ~updates[j].reasoning}

\* C23: in live-updating mode, when the stream has ended with a finish
\* reason, every segment has received exactly one terminal update, carrying
\* the segment's final text without the streaming marker, and no segment's
\* message is left showing the marker or a text shorter than its content.
C23_EverySegmentTerminated ==
  (~use_plain_responses /\ spc = "ended" /\ ending = "finished") =>
    /\ Len(shown) = Len(ContentSegments)
    /\ \A i \in DOMAIN ContentSegments :
         /\ Cardinality(TerminalUpdates(i)) = 1
         /\ \A j \in TerminalUpdates(i) :
              /\ updates[j].text = ContentSegments[i]
              /\ ~updates[j].indicator
         /\ shown[i].text = ContentSegments[i]
         /\ ~shown[i].indicator

\* An update is terminal when the stream has finished or the next delta
\* would overflow the segment.
Terminal(u) == u.fin # "none" \/ u.split

C25_OneCallInFlight ==
  \A i \in DOMAIN updates : updates[i].prior \in {"none", "done"}

\* C25 witness: an edit was scheduled as a task, and the next edit of the
\* response was issued after that task had completed.
C25_Witness ==
  \E i \in DOMAIN updates :
    /\ i > 1
    /\ ~updates[i - 1].start /\ ~updates[i].start
    /\ updates[i].prior = "done"

\* The node created for the i-th message of h's response is in the cache
\* under that message's key and has been finalised.
ResponseNodeFinal(h, i) ==
  LET r == response_msgs[h][i]
      o == response_nodes[h][i]
  IN /\ msg_nodes[r] = o
     /\ node[o].role = "assistant"
     /\ node[o].parent_msg = new_msg[h]
     /\ node[o].text = "resp"

\* The lock of a response node is held by its handler while the text is null.
LockedUntilWritten ==
  \A h \in H : \A i \in DOMAIN response_nodes[h] :
    LET o == response_nodes[h][i]
    IN node[o].text = "null" => lock[o] = h

\* C26: when a response finishes (completed or aborted by an error), every
\* outgoing message created for it has a cache node with role assistant,
\* parent equal to the triggering message and a non-null text, the
\* concatenation of the segments assembled so far; and the node's lock is
\* released only after the text has been written.
C26_ResponseNodesFinalized ==
  /\ []LockedUntilWritten
  /\ [][\A h \in H :
          (pc[h] = "finalize" /\ pc'[h] # "finalize") =>
            /\ pc'[h] # "crashed"
            /\ \A i \in DOMAIN response_msgs[h] :
                 /\ i \in DOMAIN response_nodes[h]
                 /\ ResponseNodeFinal(h, i)]_vars

\* C27: a failed edit call does not abort the response.  A delta processed
\* after an edit has failed leaves the handler consuming the stream: the
\* failed edit is not retried and later deltas are assembled and shown.
C27_FailedEditTolerated ==
  [][(spc = "stream" /\ chunks' # chunks /\ edit_task' = "failed") =>
       (spc' = "stream" /\ ending' = ending)]_vars

\* C28: after a backend stream error or a failed send the handler issues no
\* further send or edit for the response: the messages already sent stay as
\* last updated, no new segment message is created, no further delta is
\* consumed, and the handler is at finalisation.
C28_NothingSentAfterError ==
  /\ [](ending = "raised" => spc = "ended")
  /\ [][ending = "raised" =>
          UNCHANGED <<shown, updates, edit_task, response_contents, chunks>>]_vars

\* C28 witness: the send of a second segment's message failed; the first
\* message is on display, the second segment has none.
C28_Witness ==
  /\ ~use_plain_responses
  /\ ending = "raised" /\ spc = "ended"
  /\ shown # <<>>
  /\ Len(shown) < Len(response_contents)

IsPrefix(p, q) == Len(p) <= Len(q) /\ SubSeq(q, 1, Len(p)) = p

\* Message i displays segment i and replies to the message before it, the
\* first one to the triggering message (0).
InSegmentOrder ==
  /\ Len(shown) <= Len(response_contents)
  /\ \A i \in DOMAIN shown :
       /\ shown[i].reply_to = i - 1
       /\ IsPrefix(shown[i].text, response_contents[i])

EarlierSegmentsKept ==
  \A i \in DOMAIN response_contents :
    i < Len(response_contents) =>
      /\ i \in DOMAIN response_contents'
      /\ response_contents'[i] = response_contents[i]

EarlierMessagesKept ==
  \A i \in DOMAIN shown :
    i < Len(shown) => (i \in DOMAIN shown' /\ shown'[i] = shown[i])

\* C29: segments are emitted in the order they were started.  The first
\* segment's message replies to the triggering message and each later one to
\* the message of the segment before it; once a later segment has been
\* started, neither the text of an earlier segment nor its message changes.
C29_SegmentOrder ==
  /\ []InSegmentOrder
  /\ [][EarlierSegmentsKept /\ EarlierMessagesKept]_vars

\* C29 witness: in live mode a second segment has been started and its
\* message replies to the first segment's message, whose text is final.
C29_Witness ==
  /\ ~use_plain_responses
  /\ Len(shown) = 2
  /\ shown[1].reply_to = 0 /\ shown[2].reply_to = 1
  /\ shown[1].text = response_contents[1]
  /\ Len(response_contents[2]) > Len(shown[2].text)

\* C30: in plain mode no message is sent or edited while deltas are being
\* consumed; after the stream has ended exactly one message is sent per
\* segment, in segment order, and no edit is ever issued.
C30_PlainSendsAtEnd ==
  use_plain_responses =>
    /\ updates = <<>> /\ edit_task = "none"
    /\ spc \in {"stream", "after"} => shown = <<>>
    /\ (spc = "ended" /\ ending # "raised") =>
         /\ Len(shown) = Len(response_contents)
         /\ \A i \in DOMAIN shown :
              /\ shown[i].text = response_contents[i]
              /\ shown[i].reply_to = i - 1
              /\ ~shown[i].indicator

\* C30 witness: a plain-mode stream has ended with two content segments and
\* a reasoning segment, each sent as one message.
C30_Witness ==
  /\ use_plain_responses
  /\ spc = "ended" /\ ending = "finished"
  /\ reasoning_appended
  /\ Len(response_contents) = 3
  /\ Len(shown) = 3

\* The step is one of h's eviction loop.
Evicting(h) ==
  /\ pc[h] \in {"evict", "evictwait"}
  /\ Acts(h) \/ victims'[h] # victims[h]

\* h has dealt with the first key of its snapshot.
VictimDone(h) == Evicting(h) /\ victims'[h] # victims[h]

\* C31: eviction tolerates a key that is no longer present.  With overlapping
\* snapshots, or a victim removed while the evictor waited for its lock, an
\* eviction step raises no error, the victim key is absent from msg_nodes
\* once the evictor has dealt with it, and eviction adds no key to the cache:
\* no placeholder created by setdefault remains.
C31_EvictionToleratesMissingKey ==
  [][\A h \in H :
       /\ Evicting(h) => (pc'[h] # "crashed" /\ CachedKeys' \subseteq CachedKeys)
       /\ VictimDone(h) => msg_nodes'[Head(victims[h])] = 0]_vars

\* C31 witness: the key an evictor is waiting to remove has been removed by
\* another handler's eviction in the meantime, and the lock it waits for is
\* free: its pop is about to find the key missing.
C31_Witness ==
  \E h \in H :
    /\ pc[h] = "evictwait"
    /\ msg_nodes[Head(victims[h])] = 0
    /\ lock[curr_node[h]] = 0
    /\ \E g \in H \ {h} : pc[g] \in {"evict", "done"}

\* A handler that waits for a node lock holds no node lock.
WaitsEmptyHanded ==
  \A h \in H :
    pc[h] \in {"lockwait", "evictwait"} => \A o \in Objs : lock[o] # h

\* C32: deadlock freedom.  A handler never waits for a node lock while it
\* holds another one and, provided every external call returns, every
\* started handler eventually finishes, for every interleaving of handlers.
C32_EveryHandlerFinishes ==
  /\ []WaitsEmptyHanded
  /\ \A h \in H : (pc[h] # "idle") ~> Ended(h)

\* C33: when a handler reaches finalisation, for every message of its
\* response the cache still maps the message's key to the node object the
\* handler created and locked, so writing the text and releasing the lock
\* neither fails on a missing key nor releases a lock the handler does not
\* hold.
C33_OwnNodesAtFinalisation ==
  \A h \in H :
    /\ pc[h] = "finalize" =>
         \A i \in DOMAIN response_msgs[h] :
           i >= idx[h] =>
             /\ msg_nodes[response_msgs[h][i]] = response_nodes[h][i]
             /\ lock[response_nodes[h][i]] = h
    /\ how[h] \notin {"key_error", "release_error"}

\* C34: staging invariant.  After each delta without a finish reason has
\* been processed, the concatenation of the content segments equals the
\* concatenation of the content of all deltas received so far except the
\* most recent one, which is held back as staged content.
C34_StagingInvariant ==
  (spc = "stream" /\ finish_reason = "none") =>
    Join(response_contents) \o curr_content = delivered

\* C34 witness: two segments have been committed and a non-empty delta is
\* staged.
C34_Witness ==
  /\ spc = "stream" /\ finish_reason = "none"
  /\ Len(response_contents) = 2
  /\ curr_content # <<>>
  /\ Join(response_contents) # <<>>
  /\ Join(response_contents) \o curr_content = delivered

\* C35: eviction never over-evicts.  For every interleaving of handlers, each
\* evicting from its own snapshot of the keys, an eviction step that removes
\* a key leaves at least MAX_MESSAGE_NODES entries in the cache, and a
\* handler that finds at most MAX_MESSAGE_NODES entries removes nothing.
C35_NoOverEviction ==
  [][\A h \in H :
       /\ (Evicting(h) /\ CachedKeys' # CachedKeys) =>
            Cardinality(CachedKeys') >= MAX_MESSAGE_NODES
       /\ (pc[h] = "finalize" /\ Acts(h)
             /\ Cardinality(CachedKeys) <= MAX_MESSAGE_NODES) =>
            (pc'[h] # "evict" /\ CachedKeys' = CachedKeys)]_vars

\* C35 witness: two handlers have been evicting at the same time; one is
\* still waiting for the lock of a victim, the other has removed its victims,
\* and the cache holds exactly MAX_MESSAGE_NODES entries.
C35_Witness ==
  \E h, g \in H :
    /\ h # g
    /\ pc[h] = "evictwait" /\ victims[h] # <<>>
    /\ pc[g] \in {"evict", "done"}
    /\ Cardinality(inserted) > MAX_MESSAGE_NODES
    /\ Cardinality(CachedKeys) = MAX_MESSAGE_NODES

\* An exception leaves the population block of h.
PopulationAborted(h) ==
  pc[h] \in {"pop_fetch", "pop_parent"} /\ pc'[h] = "crashed"

\* C36: if the population of a node is aborted by an error that is not
\* handled inside the population block, the node's lock is released and the
\* node is left unpopulated (text null), so that the next chain walk that
\* reaches the key runs population again: the node never keeps a non-null
\* text with the parent link the aborted population left unresolved.
C36_AbortedPopulationLeavesNull ==
  [][\A h \in H :
       (PopulationAborted(h) /\ msg_nodes'[curr_msg[h]] = curr_node[h]) =>
         /\ lock'[curr_node[h]] = 0
         /\ node'[curr_node[h]].text = "null"]_vars

====
